---- MODULE Spec2Model ----
(***************************************************************************)
(* Model of the LCZ utilities (utilities/lcz_utils.py), the comparison     *)
(* plotter (utilities/plot_utils.py) and the script that drives them       *)
(* (example.py).                                                           *)
(*                                                                         *)
(* SpecLcz: the script's calls of convert_LCZ_num_to_class,                *)
(*          load_LCZ_class_palette and get_LCZ_order over a file system    *)
(*          holding the two JSON resources.                                *)
(* SpecPlot: one call of plot_pred_vs_actual, statement by statement.      *)
(***************************************************************************)
EXTENDS Integers, Sequences, FiniteSets, TLC

VARIABLES
    mapperFile,        \* the JSON number-to-class resource on disk
    data,              \* the script's column of LCZ numerical codes
    pc,                \* position of the running lcz_utils call
    call,              \* the running call: function and LCZ_kind
    handles,           \* number of file objects currently open
    LCZ_num_to_class,  \* the dictionary json.load returned in this call
    pending,           \* exception travelling out of the with block
    ret,               \* what the call returned or raised
    workspace,         \* the script's variables holding earlier results
    args,              \* the arguments of plot_pred_vs_actual
    ppc,               \* position inside plot_pred_vs_actual
    canvas,            \* what matplotlib/seaborn have been told to draw
    perr               \* exception raised by plot_pred_vs_actual

lczVars  == <<mapperFile, data, pc, call, handles,
              LCZ_num_to_class, pending, ret, workspace>>
plotVars == <<args, ppc, canvas, perr>>
vars     == <<mapperFile, data, pc, call, handles,
              LCZ_num_to_class, pending, ret, workspace,
              args, ppc, canvas, perr>>

-----------------------------------------------------------------------------
(* Bounds of the model *)

\* longest reference table (number of JSON members)
MaxTable == 2
\* longest column of LCZ codes
MaxLen == 3
\* most rows of the data frame handed to the plotter
MaxRows == 1

-----------------------------------------------------------------------------
(* Values *)

\* JSON member names as character sequences, so that int(key) is computed
KeyStrings == { <<"1">>, <<"2">>, <<"0", "1">>, <<"x">> }
Labels     == { "A", "B" }
\* codes a data column can hold; 3 is a key of no table above
Codes      == { 1, 2, 3 }
\* pandas' missing value in a column of labels
NaN        == "NaN"
None       == "None"
Kinds      == { "num", "class", "other" }

Range(s) == { s[i] : i \in 1..Len(s) }

SeqsUpTo(S, n) == UNION { [1..k -> S] : k \in 0..n }

\* a parsed JSON object: its members in file order, names pairwise distinct
JsonObjects ==
    { b \in SeqsUpTo(KeyStrings \X Labels, MaxTable) :
        \A i, j \in 1..Len(b) : b[i][1] = b[j][1] => i = j }

-----------------------------------------------------------------------------
(* Pure functions of lcz_utils.py *)

IsDigit(c) == c \in { "0", "1", "2", "3", "4", "5", "6", "7", "8", "9" }

DigitValue(c) ==
    CASE c = "0" -> 0 [] c = "1" -> 1 [] c = "2" -> 2 [] c = "3" -> 3
      [] c = "4" -> 4 [] c = "5" -> 5 [] c = "6" -> 6 [] c = "7" -> 7
      [] c = "8" -> 8 [] c = "9" -> 9

\* int(key) succeeds on a non-empty string of decimal digits
IntParses(key) == Len(key) > 0 /\ \A i \in 1..Len(key) : IsDigit(key[i])

RECURSIVE IntOfPrefix(_, _)
IntOfPrefix(key, n) ==
    IF n = 0 THEN 0 ELSE 10 * IntOfPrefix(key, n - 1) + DigitValue(key[n])

\* int(key)
IntOf(key) == IntOfPrefix(key, Len(key))

HasKey(dct, k) == \E i \in 1..Len(dct) : dct[i][1] = k

\* dct[k] = v on an insertion-ordered dict: a present key keeps its place
DictSet(dct, k, v) ==
    IF HasKey(dct, k)
    THEN [ i \in 1..Len(dct) |-> IF dct[i][1] = k THEN <<k, v>> ELSE dct[i] ]
    ELSE Append(dct, <<k, v>>)

RECURSIVE ObjectHookPrefix(_, _)
ObjectHookPrefix(dct, n) ==
    IF n = 0 THEN <<>>
    ELSE DictSet(ObjectHookPrefix(dct, n - 1), IntOf(dct[n][1]), dct[n][2])

\* object_hook: {int(key): value for key, value in dct.items()}
ObjectHook(dct) == ObjectHookPrefix(dct, Len(dct))

\* the hook raises ValueError when some key is no integer literal
HookRaises(dct) == \E i \in 1..Len(dct) : ~IntParses(dct[i][1])

DictKeys(dct)   == [ i \in 1..Len(dct) |-> dct[i][1] ]
DictValues(dct) == [ i \in 1..Len(dct) |-> dct[i][2] ]

\* dct.get(k, NaN): what Series.map looks up for one element
Lookup(dct, k) ==
    IF HasKey(dct, k)
    THEN dct[CHOOSE i \in 1..Len(dct) : dct[i][1] = k][2]
    ELSE NaN

\* a map that walks the distinct codes instead of every position
SeriesMapDistinct(s, dct) ==
    LET u == [ i \in 1..Len(s) |-> Lookup(dct, s[i]) ]
        n == Cardinality(Range(s))
    IN  SubSeq(u, 1, n)

\* Series.map(dict): element by element, positions kept
SeriesMap(s, dct) == [ i \in 1..Len(s) |-> Lookup(dct, s[i]) ]

RECURSIVE UniquePrefix(_, _)
UniquePrefix(s, n) ==
    IF n = 0 THEN <<>>
    ELSE LET u == UniquePrefix(s, n - 1)
         IN  IF s[n] \in Range(u) THEN u ELSE Append(u, s[n])

\* Series.unique(): distinct values in order of first appearance
Unique(s) == UniquePrefix(s, Len(s))

RECURSIVE FilterPrefix(_, _, _)
FilterPrefix(ref, uniq, n) ==
    IF n = 0 THEN <<>>
    ELSE LET r == FilterPrefix(ref, uniq, n - 1)
         IN  IF ref[n] \in Range(uniq) THEN Append(r, ref[n]) ELSE r

\* [LCZ for LCZ in LCZ_ref if LCZ in LCZ_unique]
OrderedAsRef(ref, uniq) == FilterPrefix(ref, uniq, Len(ref))

-----------------------------------------------------------------------------
(* The script's calls into lcz_utils.py *)

NoCall == [ op |-> "none", kind |-> "none", path |-> "none" ]
NoRet  == [ status |-> "none", error |-> "none", nums |-> <<>>, strs |-> <<>> ]
NoWork == [ hasClass |-> FALSE, LCZ_class |-> <<>> ]

MapperFiles ==
    { [ status |-> "absent", body |-> <<>> ],
      [ status |-> "malformed", body |-> <<>> ] }
    \cup { [ status |-> "ok", body |-> b ] : b \in JsonObjects }

\* paths a caller can pass as the palette's mapper_file_path
PalettePaths == { "palette", "missing", "broken" }

\* what open() and the JSON decoder find at a path
FileStatus(path) ==
    CASE path = "mapper"  -> mapperFile.status
      [] path = "palette" -> "ok"
      [] path = "missing" -> "absent"
      [] path = "broken"  -> "malformed"

Raise(e) == [ status |-> "raised", error |-> e, nums |-> <<>>, strs |-> <<>> ]

LczInit ==
    /\ mapperFile \in MapperFiles
    /\ data \in SeqsUpTo(Codes, MaxLen)
    /\ pc = "idle"
    /\ call = NoCall
    /\ handles = 0
    /\ LCZ_num_to_class = <<>>
    /\ pending = "none"
    /\ ret = NoRet
    /\ workspace = NoWork

\* example.py: data["LCZ"] = convert_LCZ_num_to_class(data["LCZ"], ...)
CallConvert ==
    /\ pc = "idle"
    /\ call' = [ op |-> "convert", kind |-> "none", path |-> "mapper" ]
    /\ pc' = "open"
    /\ ret' = NoRet
    /\ UNCHANGED plotVars
    /\ UNCHANGED <<mapperFile, data, handles, LCZ_num_to_class,
                   pending, workspace>>

\* example.py: LCZ_class_to_palette = load_LCZ_class_palette(...)
CallPalette ==
    /\ pc = "idle"
    /\ \E path \in PalettePaths :
         call' = [ op |-> "palette", kind |-> "none", path |-> path ]
    /\ pc' = "open"
    /\ ret' = NoRet
    /\ UNCHANGED plotVars
    /\ UNCHANGED <<mapperFile, data, handles, LCZ_num_to_class,
                   pending, workspace>>

\* example.py: hue_order = get_LCZ_order(data["LCZ"], LCZ_kind=..., ...)
\* with kind "class" the column passed is the one convert produced
CallOrder ==
    /\ pc = "idle"
    /\ \E kind \in Kinds :
         /\ kind = "class" => workspace.hasClass
         /\ call' = [ op |-> "order", kind |-> kind, path |-> "mapper" ]
    /\ pc' = "open"
    /\ ret' = NoRet
    /\ UNCHANGED plotVars
    /\ UNCHANGED <<mapperFile, data, handles, LCZ_num_to_class,
                   pending, workspace>>

\* with open(mapper_file_path, "r") as file:
Open ==
    /\ pc = "open"
    /\ IF FileStatus(call.path) = "absent"
       THEN /\ pc' = "raised"
            /\ ret' = Raise("FileNotFoundError")
            /\ UNCHANGED handles
       ELSE /\ pc' = "load"
            /\ handles' = handles + 1
            /\ UNCHANGED ret
    /\ UNCHANGED plotVars
    /\ UNCHANGED <<mapperFile, data, call, LCZ_num_to_class,
                   pending, workspace>>

\* json.load(file, object_hook=...) inside the with block
Load ==
    /\ pc = "load"
    /\ pc' = "exit"
    /\ IF FileStatus(call.path) = "malformed"
       THEN /\ pending' = "JSONDecodeError"
            /\ UNCHANGED LCZ_num_to_class
       ELSE IF call.op = "palette"
       THEN UNCHANGED <<pending, LCZ_num_to_class>>
       ELSE IF HookRaises(mapperFile.body)
       THEN /\ pending' = "ValueError"
            /\ UNCHANGED LCZ_num_to_class
       ELSE /\ LCZ_num_to_class' = ObjectHook(mapperFile.body)
            /\ UNCHANGED pending
    /\ UNCHANGED plotVars
    /\ UNCHANGED <<mapperFile, data, call, handles, ret, workspace>>

\* a block that closes the file only on the normal path
WithExitNoCloseOnError ==
    /\ pc = "exit"
    /\ handles' = IF pending = "none" THEN handles - 1 ELSE handles
    /\ IF pending = "none"
       THEN /\ pc' = "body"
            /\ UNCHANGED ret
       ELSE /\ pc' = "raised"
            /\ ret' = Raise(pending)
    /\ pending' = "none"
    /\ UNCHANGED plotVars
    /\ UNCHANGED <<mapperFile, data, call, LCZ_num_to_class, workspace>>

\* leaving the with block: the file is closed, an exception goes on
WithExit ==
    /\ pc = "exit"
    /\ handles' = handles - 1
    /\ IF pending = "none"
       THEN /\ pc' = "body"
            /\ UNCHANGED ret
       ELSE /\ pc' = "raised"
            /\ ret' = Raise(pending)
    /\ pending' = "none"
    /\ UNCHANGED plotVars
    /\ UNCHANGED <<mapperFile, data, call, LCZ_num_to_class,
                   workspace>>

\* a conversion that indexes the dictionary, so that a miss is a KeyError
ConvertBodyIndexing ==
    /\ pc = "body"
    /\ call.op = "convert"
    /\ IF \A i \in 1..Len(data) : HasKey(LCZ_num_to_class, data[i])
       THEN /\ ret' = [ status |-> "returned", error |-> "none",
                        nums |-> <<>>,
                        strs |-> SeriesMap(data, LCZ_num_to_class) ]
            /\ pc' = "returned"
       ELSE /\ ret' = Raise("KeyError")
            /\ pc' = "raised"
    /\ UNCHANGED plotVars
    /\ UNCHANGED <<mapperFile, data, call, handles, LCZ_num_to_class,
                   pending, workspace>>

\* LCZ_class = LCZ_num.map(LCZ_num_to_class); return LCZ_class
ConvertBody ==
    /\ pc = "body"
    /\ call.op = "convert"
    /\ ret' = [ status |-> "returned", error |-> "none", nums |-> <<>>,
                strs |-> SeriesMap(data, LCZ_num_to_class) ]
    /\ pc' = "returned"
    /\ UNCHANGED plotVars
    /\ UNCHANGED <<mapperFile, data, call, handles,
                   LCZ_num_to_class, pending, workspace>>

\* return LCZ_class_to_palette
PaletteBody ==
    /\ pc = "body"
    /\ call.op = "palette"
    /\ ret' = [ status |-> "returned", error |-> "none", nums |-> <<>>,
                strs |-> <<>> ]
    /\ pc' = "returned"
    /\ UNCHANGED plotVars
    /\ UNCHANGED <<mapperFile, data, call, handles,
                   LCZ_num_to_class, pending, workspace>>

\* LCZ.unique(), the match statement and the list comprehension.  In the
\* default case the ValueError is built and dropped, LCZ_ref stays unbound
\* and the comprehension raises UnboundLocalError.
OrderBody ==
    /\ pc = "body"
    /\ call.op = "order"
    /\ CASE call.kind = "num" ->
            /\ ret' = [ status |-> "returned", error |-> "none",
                        nums |-> OrderedAsRef(DictKeys(LCZ_num_to_class),
                                              Unique(data)),
                        strs |-> <<>> ]
            /\ pc' = "returned"
         [] call.kind = "class" ->
            /\ ret' = [ status |-> "returned", error |-> "none",
                        nums |-> <<>>,
                        strs |-> OrderedAsRef(DictValues(LCZ_num_to_class),
                                              Unique(workspace.LCZ_class)) ]
            /\ pc' = "returned"
         [] OTHER ->
            /\ ret' = Raise("UnboundLocalError")
            /\ pc' = "raised"
    /\ UNCHANGED plotVars
    /\ UNCHANGED <<mapperFile, data, call, handles,
                   LCZ_num_to_class, pending, workspace>>

\* the script binds the returned value and goes on to its next statement
Resume ==
    /\ pc = "returned"
    /\ workspace' =
         IF call.op = "convert"
         THEN [ hasClass |-> TRUE, LCZ_class |-> ret.strs ]
         ELSE workspace
    /\ pc' = "idle"
    /\ call' = NoCall
    /\ ret' = NoRet
    /\ LCZ_num_to_class' = <<>>
    /\ UNCHANGED plotVars
    /\ UNCHANGED <<mapperFile, data, handles, pending>>

-----------------------------------------------------------------------------
(* plot_pred_vs_actual *)

\* 0.05 as a fraction: axis limits are kept in units of 1/PadDivisor
PadDivisor == 20

Columns     == { "y_actual", "y_pred", "LCZ" }
\* values of the two numeric columns
Values      == { 100, 205, 310 }
\* regression scores in units of 1/10000, none of them a rounding tie
ScoreR2     == <<"R2", 8324>>
ScoreRMSE   == <<"RMSE", 8736>>
ScoreDicts  == { <<>>, <<ScoreR2>>, <<ScoreRMSE>>, <<ScoreR2, ScoreRMSE>>,
                 <<ScoreRMSE, ScoreR2>> }
HueOrders   == { None, "hue_order" }
HuePalettes == { None, "hue_palette" }

\* a data frame: the columns it has and the rows of the two numeric ones
\* (a column the frame lacks has no rows)
DataFrames ==
    { [ cols   |-> c,
        actual |-> IF "y_actual" \in c THEN r[1] ELSE <<>>,
        pred   |-> IF "y_pred" \in c THEN r[2] ELSE <<>> ] :
        c \in SUBSET Columns,
        r \in UNION { [1..n -> Values] \X [1..n -> Values] : n \in 1..MaxRows } }

NoArgs ==
    [ df |-> [ cols |-> {}, actual |-> <<>>, pred |-> <<>> ],
      col_actual |-> None, col_pred |-> None, col_hue |-> None,
      hue_order |-> None, hue_palette |-> None,
      scores |-> [ given |-> FALSE, items |-> <<>> ],
      use_hue |-> FALSE, print_scores |-> FALSE ]

NoScatter == [ drawn |-> FALSE, x |-> None, y |-> None, hue |-> None,
               hue_order |-> None, palette |-> None ]
NoLimits  == [ set |-> FALSE, lo |-> 0, hi |-> 0 ]

Blank ==
    [ figure |-> FALSE, axes |-> FALSE, title |-> FALSE,
      scatter |-> NoScatter,
      text |-> [ drawn |-> FALSE, lines |-> <<>> ],
      xlim |-> NoLimits, ylim |-> NoLimits,
      axline |-> FALSE, decorated |-> FALSE, legend |-> FALSE,
      shown |-> FALSE ]

\* f"{score_value:.3f}": the nearest multiple of 1/1000, in thousandths
Format3f(v) == (v + 5) \div 10

\* the joined lines of the score text, one per scores.items() entry
ScoreLines(items) ==
    [ i \in 1..Len(items) |-> <<items[i][1], Format3f(items[i][2])>> ]

RECURSIVE MinPrefix(_, _)
MinPrefix(col, n) ==
    IF n = 1 THEN col[1]
    ELSE LET m == MinPrefix(col, n - 1) IN IF col[n] < m THEN col[n] ELSE m

RECURSIVE MaxPrefix(_, _)
MaxPrefix(col, n) ==
    IF n = 1 THEN col[1]
    ELSE LET m == MaxPrefix(col, n - 1) IN IF col[n] > m THEN col[n] ELSE m

\* a minimum taken over the actual column alone
FrameMinActualOnly(df) == MinPrefix(df.actual, Len(df.actual))

\* df[[col_actual, col_pred]].min().min()
FrameMin(df) ==
    LET a == MinPrefix(df.actual, Len(df.actual))
        p == MinPrefix(df.pred, Len(df.pred))
    IN  IF a < p THEN a ELSE p

\* df[[col_actual, col_pred]].max().max()
FrameMax(df) ==
    LET a == MaxPrefix(df.actual, Len(df.actual))
        p == MaxPrefix(df.pred, Len(df.pred))
    IN  IF a > p THEN a ELSE p

\* x_min - 0.05 * Delta_x and x_max + 0.05 * Delta_x, times PadDivisor
PaddedLimits(df) ==
    LET x_min   == FrameMin(df)
        x_max   == FrameMax(df)
        Delta_x == x_max - x_min
    IN  [ set |-> TRUE,
          lo  |-> PadDivisor * x_min - Delta_x,
          hi  |-> PadDivisor * x_max + Delta_x ]

\* a scatter call that passes the hue arguments whatever use_hue is
ScatterArgsAlwaysHue(a) ==
    [ drawn     |-> TRUE,
      x         |-> a.col_actual,
      y         |-> a.col_pred,
      hue       |-> a.col_hue,
      hue_order |-> a.hue_order,
      palette   |-> a.hue_palette ]

\* hue=col_hue if use_hue is True else None, and likewise the other two
ScatterArgs(a) ==
    [ drawn     |-> TRUE,
      x         |-> a.col_actual,
      y         |-> a.col_pred,
      hue       |-> IF a.use_hue THEN a.col_hue ELSE None,
      hue_order |-> IF a.use_hue THEN a.hue_order ELSE None,
      palette   |-> IF a.use_hue THEN a.hue_palette ELSE None ]

\* a scatter call that looks up x and y only
ScatterRaisesXYOnly(a) ==
    \/ a.col_actual \notin a.df.cols
    \/ a.col_pred \notin a.df.cols

\* sns.scatterplot raises ValueError for a named column that data lacks
ScatterRaises(a) ==
    LET s == ScatterArgs(a)
    IN  \/ s.x \notin a.df.cols
        \/ s.y \notin a.df.cols
        \/ (s.hue # None /\ s.hue \notin a.df.cols)

\* "if print_scores and scores": an empty mapping counts as absent
PrintsScoresTruthy(a) ==
    a.print_scores /\ a.scores.given /\ a.scores.items # <<>>

\* if print_scores is True and scores is not None
PrintsScores(a) == a.print_scores /\ a.scores.given

PlotInit ==
    /\ args \in
         [ df : DataFrames,
           col_actual : { "y_actual" }, col_pred : { "y_pred" },
           col_hue : { None, "LCZ" },
           hue_order : HueOrders, hue_palette : HuePalettes,
           scores : { [ given |-> FALSE, items |-> <<>> ] }
                    \cup { [ given |-> TRUE, items |-> d ] : d \in ScoreDicts },
           use_hue : BOOLEAN, print_scores : BOOLEAN ]
    /\ ppc = "figure"
    /\ canvas = Blank
    /\ perr = "none"

\* plt.figure(figsize=(9, 7))
Figure ==
    /\ ppc = "figure"
    /\ canvas' = [ canvas EXCEPT !.figure = TRUE ]
    /\ ppc' = "axes"
    /\ UNCHANGED <<args, perr>>
    /\ UNCHANGED lczVars

\* ax = plt.axes()
Axes ==
    /\ ppc = "axes"
    /\ canvas' = [ canvas EXCEPT !.axes = TRUE ]
    /\ ppc' = "title"
    /\ UNCHANGED <<args, perr>>
    /\ UNCHANGED lczVars

\* plt.title(...)
Title ==
    /\ ppc = "title"
    /\ canvas' = [ canvas EXCEPT !.title = TRUE ]
    /\ ppc' = "scatter"
    /\ UNCHANGED <<args, perr>>
    /\ UNCHANGED lczVars

\* sns.scatterplot(ax=ax, data=df, x=..., y=..., hue=..., ...)
Scatter ==
    /\ ppc = "scatter"
    /\ IF ScatterRaises(args)
       THEN /\ ppc' = "raised"
            /\ perr' = "ValueError"
            /\ UNCHANGED canvas
       ELSE /\ ppc' = "text"
            /\ canvas' = [ canvas EXCEPT !.scatter = ScatterArgs(args) ]
            /\ UNCHANGED perr
    /\ UNCHANGED args
    /\ UNCHANGED lczVars

\* ax.text(x=0.03, y=0.97, s="".join([...]), ...)
ScoresText ==
    /\ ppc = "text"
    /\ canvas' =
         IF PrintsScores(args)
         THEN [ canvas EXCEPT !.text = [ drawn |-> TRUE,
                                         lines |-> ScoreLines(args.scores.items) ] ]
         ELSE canvas
    /\ ppc' = "limits"
    /\ UNCHANGED <<args, perr>>
    /\ UNCHANGED lczVars

\* y_min = x_min; y_max = x_max; ax.set_xlim(...); ax.set_ylim(...)
AxesRanges ==
    /\ ppc = "limits"
    /\ canvas' = [ canvas EXCEPT !.xlim = PaddedLimits(args.df),
                                 !.ylim = PaddedLimits(args.df) ]
    /\ ppc' = "axline"
    /\ UNCHANGED <<args, perr>>
    /\ UNCHANGED lczVars

\* plt.axline(xy1=(0, 0), slope=1, ...)
Axline ==
    /\ ppc = "axline"
    /\ canvas' = [ canvas EXCEPT !.axline = TRUE ]
    /\ ppc' = "decor"
    /\ UNCHANGED <<args, perr>>
    /\ UNCHANGED lczVars

\* axis labels, minor ticks, aspect ratio and the two grids
Decorate ==
    /\ ppc = "decor"
    /\ canvas' = [ canvas EXCEPT !.decorated = TRUE ]
    /\ ppc' = "legend"
    /\ UNCHANGED <<args, perr>>
    /\ UNCHANGED lczVars

\* if use_hue is True: plt.legend(...)
Legend ==
    /\ ppc = "legend"
    /\ canvas' = IF args.use_hue THEN [ canvas EXCEPT !.legend = TRUE ]
                 ELSE canvas
    /\ ppc' = "show"
    /\ UNCHANGED <<args, perr>>
    /\ UNCHANGED lczVars

\* plt.show()
Show ==
    /\ ppc = "show"
    /\ canvas' = [ canvas EXCEPT !.shown = TRUE ]
    /\ ppc' = "returned"
    /\ UNCHANGED <<args, perr>>
    /\ UNCHANGED lczVars

-----------------------------------------------------------------------------
(* Specifications *)

LczIdle ==
    /\ mapperFile = [ status |-> "absent", body |-> <<>> ]
    /\ data = <<>>
    /\ pc = "idle"
    /\ call = NoCall
    /\ handles = 0
    /\ LCZ_num_to_class = <<>>
    /\ pending = "none"
    /\ ret = NoRet
    /\ workspace = NoWork

PlotIdle ==
    /\ args = NoArgs
    /\ ppc = "idle"
    /\ canvas = Blank
    /\ perr = "none"

InitLcz == LczInit /\ PlotIdle

NextLcz ==
    \/ CallConvert
    \/ CallPalette
    \/ CallOrder
    \/ Open
    \/ Load
    \/ WithExit
    \/ ConvertBody
    \/ PaletteBody
    \/ OrderBody
    \/ Resume

SpecLcz == InitLcz /\ [][NextLcz]_vars

InitPlot == PlotInit /\ LczIdle

NextPlot ==
    \/ Figure
    \/ Axes
    \/ Title
    \/ Scatter
    \/ ScoresText
    \/ AxesRanges
    \/ Axline
    \/ Decorate
    \/ Legend
    \/ Show

SpecPlot == InitPlot /\ [][NextPlot]_vars

-----------------------------------------------------------------------------
(* Properties of lcz_utils.py, checked under SpecLcz *)

\* the mapper file decodes and every member name is an integer literal
Loadable ==
    /\ mapperFile.status = "ok"
    /\ \A i \in 1..Len(mapperFile.body) : IntParses(mapperFile.body[i][1])

IsKey(k) == \E j \in 1..Len(LCZ_num_to_class) : LCZ_num_to_class[j][1] = k

AllCodesAreKeys == \A i \in 1..Len(data) : IsKey(data[i])

NoDuplicates(s) == \A i, j \in 1..Len(s) : s[i] = s[j] => i = j

\* s is t with some positions removed
IsSubsequence(s, t) ==
    \E f \in [1..Len(s) -> 1..Len(t)] :
        /\ \A i \in 1..Len(s) : t[f[i]] = s[i]
        /\ \A i, j \in 1..Len(s) : i < j => f[i] < f[j]

ConvertReturned == pc = "returned" /\ call.op = "convert"

ClassOrderReturned ==
    pc = "returned" /\ call.op = "order" /\ call.kind = "class"

\* C1: when every code of the input is a key of the table (whose keys are
\* pairwise distinct), convert_LCZ_num_to_class returns as many labels as
\* there are codes, and the label at position i is the table's label for
\* the code at position i.
C1_MapKeepsPositions ==
    (ConvertReturned /\ AllCodesAreKeys /\ NoDuplicates(DictKeys(LCZ_num_to_class)))
    => /\ Len(ret.strs) = Len(data)
       /\ \A i \in 1..Len(data) :
            <<data[i], ret.strs[i]>> \in Range(LCZ_num_to_class)

\* a conversion of two codes listed against the table's order, with
\* different labels
C1_Witness ==
    /\ ConvertReturned
    /\ AllCodesAreKeys
    /\ Len(data) = 2
    /\ data[1] > data[2]
    /\ Len(ret.strs) = 2
    /\ ret.strs[1] # ret.strs[2]

\* C2: get_LCZ_order with kind "class" returns a subsequence of the
\* table's values that holds exactly the table values occurring in the
\* input, each of them once.
C2_ClassOrderIsDuplicateFree ==
    ClassOrderReturned
    => /\ IsSubsequence(ret.strs, DictValues(LCZ_num_to_class))
       /\ Range(ret.strs) =
            Range(DictValues(LCZ_num_to_class)) \cap Range(workspace.LCZ_class)
       /\ NoDuplicates(ret.strs)

\* C3: a get_LCZ_order call with a kind other than "num" and "class", on a
\* table that loads, ends by raising ValueError.
C3_UnknownKindRaisesValueError ==
    ( /\ call.op = "order"
      /\ call.kind \notin { "num", "class" }
      /\ Loadable
      /\ pc \in { "returned", "raised" } )
    => (pc = "raised" /\ ret.error = "ValueError")

\* C5: on a table that loads, convert_LCZ_num_to_class returns whatever
\* the codes are; a position whose code is no key holds the missing value
\* and every other position holds the table's label for its code.
C5_MissIsMissingValue ==
    (call.op = "convert" /\ Loadable /\ pc \in { "returned", "raised" })
    => /\ pc = "returned"
       /\ Len(ret.strs) = Len(data)
       /\ \A i \in 1..Len(data) :
            IF IsKey(data[i])
            THEN <<data[i], ret.strs[i]>> \in Range(LCZ_num_to_class)
            ELSE ret.strs[i] = NaN

\* a conversion that met a code outside the table next to one inside it
C5_Witness ==
    /\ ConvertReturned
    /\ \E i, j \in 1..Len(data) :
         /\ ~IsKey(data[i])
         /\ ret.strs[i] = NaN
         /\ IsKey(data[j])
         /\ ret.strs[j] \in Labels

\* C9: no file object is open once a call has left its with block: not
\* while the rest of the call runs, not when it has returned, not when it
\* has raised.
C9_FileClosedAfterWith ==
    pc \in { "idle", "body", "returned", "raised" } => handles = 0

\* a call that opened the mapper and failed on a non-integer key
C9_Witness ==
    /\ pc = "raised"
    /\ ret.error = "ValueError"
    /\ mapperFile.status = "ok"
    /\ handles = 0

\* C10: when every code of the input is a key, the class ordering of the
\* converted column equals the numeric ordering of the codes mapped
\* through the table element by element.
C10_NumAndClassOrderAgree ==
    (ClassOrderReturned /\ AllCodesAreKeys)
    => ret.strs =
         SeriesMap(OrderedAsRef(DictKeys(LCZ_num_to_class), Unique(data)),
                   LCZ_num_to_class)

-----------------------------------------------------------------------------
(* Properties of plot_pred_vs_actual, checked under SpecPlot *)

\* the record set lacks a field the call names (the actual field, the
\* predicted field or, with use_hue true, a hue field other than None)
NamedFieldMissing ==
    \/ args.col_actual \notin args.df.cols
    \/ args.col_pred \notin args.df.cols
    \/ (args.use_hue /\ args.col_hue # None /\ args.col_hue \notin args.df.cols)

PastScatter == ppc \notin { "idle", "figure", "axes", "title", "scatter" }
PastText    == PastScatter /\ ppc \notin { "text", "raised" }

C6_HueOnlyWhenAsked ==
    /\ ~args.use_hue => ~canvas.legend
    /\ (args.use_hue /\ ppc = "returned") => canvas.legend
    /\ canvas.scatter.drawn =>
         IF args.use_hue
         THEN /\ canvas.scatter.hue = args.col_hue
              /\ canvas.scatter.hue_order = args.hue_order
              /\ canvas.scatter.palette = args.hue_palette
         ELSE /\ canvas.scatter.hue = None
              /\ canvas.scatter.hue_order = None
              /\ canvas.scatter.palette = None

\* a finished call that was handed all three hue arguments with use_hue
\* false
C6_Witness ==
    /\ ppc = "returned"
    /\ ~args.use_hue
    /\ args.col_hue = "LCZ"
    /\ args.hue_order # None
    /\ args.hue_palette # None
    /\ canvas.scatter.drawn
    /\ ~canvas.legend

AllValues == Range(args.df.actual) \cup Range(args.df.pred)
Lowest    == CHOOSE v \in AllValues : \A w \in AllValues : v <= w
Highest   == CHOOSE v \in AllValues : \A w \in AllValues : v >= w

\* C7: a call that gets past the scatter plot sets both axes to the same
\* limits, m - 0.05 (M - m) and M + 0.05 (M - m), m and M being the least
\* and greatest value of the actual and predicted columns together
\* (limits in units of 1/PadDivisor).
C7_SharedPaddedLimits ==
    /\ ppc \in { "axline", "decor", "legend", "show", "returned" }
         => canvas.xlim.set
    /\ canvas.xlim.set
         => /\ canvas.ylim = canvas.xlim
            /\ canvas.xlim.lo = PadDivisor * Lowest - (Highest - Lowest)
            /\ canvas.xlim.hi = PadDivisor * Highest + (Highest - Lowest)

\* the range [100, 310] drawn as [89.5, 320.5], the minimum coming from
\* the predicted column
C7_Witness ==
    /\ ppc = "returned"
    /\ Lowest = 100
    /\ Highest = 310
    /\ 100 \notin Range(args.df.actual)
    /\ canvas.xlim.lo = 1790
    /\ canvas.ylim.hi = 6410

\* C8: the score text is drawn exactly when print_scores is true and a
\* scores mapping is supplied; it has one line per entry, in the mapping's
\* order, each made of the entry's label and its value rounded to the
\* nearest thousandth.
C8_ScoreTextPerEntry ==
    /\ canvas.text.drawn => (args.print_scores /\ args.scores.given)
    /\ (PastText /\ args.print_scores /\ args.scores.given) => canvas.text.drawn
    /\ canvas.text.drawn =>
         /\ Len(canvas.text.lines) = Len(args.scores.items)
         /\ \A i \in 1..Len(args.scores.items) :
              /\ canvas.text.lines[i][1] = args.scores.items[i][1]
              /\ 10 * canvas.text.lines[i][2] - args.scores.items[i][2] \in -5..5

\* a finished call that printed two scores supplied in the order RMSE, R2
C8_Witness ==
    /\ ppc = "returned"
    /\ canvas.text.drawn
    /\ args.scores.items = <<ScoreRMSE, ScoreR2>>
    /\ canvas.text.lines = << <<"RMSE", 874>>, <<"R2", 832>> >>

====
